---- MODULE Spec2Model ----
(***************************************************************************)
(* GrainDelay: the sub-sample accurate event system (Utils::EventSystem,   *)
(* Utils::RampToTrig) and the per-sample pipeline of GrainDelay::next_aa.  *)
(*                                                                         *)
(* One step of the model is one iteration of the sample loop of next_aa.   *)
(* The ramp, envelope and grain phases (double / float in the source) are  *)
(* exact rationals <<n, d>> with d > 0 in lowest terms, so equal values    *)
(* are equal tuples.  Audio samples (float in the source) are whole        *)
(* numbers of steps of 1/AudioGrid, rounded to the nearest step after      *)
(* every product and quotient.                                             *)
(***************************************************************************)
EXTENDS Integers, Sequences, FiniteSets, TLC

\* ------------------------------------------------------------ bounds

\* number of voice slots (NUM_CHANNELS, 32 in the plugin)
NumChannels == 2

\* a sample is processed only while every phase stays within +-MaxMag
MaxMag == 2

\* steps of the audio sample grid in 1.0
AudioGrid == 16

\* samples two instances run with inputs of their own before a common reset
MaxHistory == 3

\* ------------------------------------------------------------ constants

\* m_sampleRate: the host's sample rate, in Hz
SampleRate == 5

\* MAX_DELAY_TIME, in seconds, of the build the pipeline is checked with: a
\* buffer of 4 frames
MaxDelayTime == <<4, 5>>

Channels == 0 .. (NumChannels - 1)

\* ------------------------------------------------------------ arithmetic

Abs(n) == IF n < 0 THEN -n ELSE n

RECURSIVE Gcd(_, _)
Gcd(a, b) == IF b = 0 THEN a ELSE Gcd(b, a % b)

\* n/d with the sign in the numerator, and q with both parts over dvs
Signed(n, d) == IF d < 0 THEN <<-n, -d>> ELSE <<n, d>>
Lowest(q, dvs) == <<q[1] \div dvs, q[2] \div dvs>>

\* the rational n/d in lowest terms, d # 0
Rat(n, d) == Lowest(Signed(n, d), Gcd(Abs(n), Abs(d)))

Zero == <<0, 1>>
One == <<1, 1>>
Half == <<1, 2>>

FromInt(n) == <<n, 1>>

Add(x, y) == Rat(x[1] * y[2] + y[1] * x[2], x[2] * y[2])
Sub(x, y) == Rat(x[1] * y[2] - y[1] * x[2], x[2] * y[2])
Mul(x, y) == Rat(x[1] * y[1], x[2] * y[2])
Div(x, y) == Rat(x[1] * y[2], x[2] * y[1])

Lt(x, y) == x[1] * y[2] < y[1] * x[2]
Le(x, y) == x[1] * y[2] <= y[1] * x[2]
Gt(x, y) == Lt(y, x)
Ge(x, y) == Le(y, x)

RAbs(x) == <<Abs(x[1]), x[2]>>
RMax(x, y) == IF Lt(x, y) THEN y ELSE x
RMin(x, y) == IF Lt(y, x) THEN y ELSE x

\* floor, and static_cast<int> (truncation toward zero)
Floor(x) == x[1] \div x[2]
Trunc(x) == IF x[1] >= 0 THEN x[1] \div x[2] ELSE -((-x[1]) \div x[2])

\* sc_clip(x, lo, hi)
Clip(x, lo, hi) == RMax(RMin(x, hi), lo)

\* ------------------------------------------------------------ RampToTrig

\* (sum != 0.0) && (std::abs(delta / sum) > 0.5)
WrapRatio(delta, sum) == sum # Zero /\ Gt(RAbs(Div(delta, sum)), Half)

\* the wrap condition of RampToTrig::process
CurrentWrap(currentPhase, lastPhase) ==
    WrapRatio(Sub(currentPhase, lastPhase), Add(currentPhase, lastPhase))

\* the pulse of RampToTrig::process: rising edge of the wrap condition
EdgeTrigger(currentWrap, lastWrap) == currentWrap /\ ~lastWrap

\* ------------------------------------------------------------ EventSystem

\* a scan that takes voice 0 from its grain when no channel is inactive
FirstInactiveSteal(act) ==
    IF \E k \in Channels : ~act[k]
    THEN CHOOSE k \in Channels :
            ~act[k] /\ \A j \in Channels : j < k => act[j]
    ELSE 0

\* a scan that runs from the last channel down to the first
LastInactive(act) ==
    IF \E k \in Channels : ~act[k]
    THEN CHOOSE k \in Channels :
            ~act[k] /\ \A j \in Channels : j > k => act[j]
    ELSE NumChannels

\* the loop of step 3: the value of ch when the loop ends, the first
\* inactive channel (break) or numChannels (no channel found)
FirstInactive(act) ==
    IF \E k \in Channels : ~act[k]
    THEN CHOOSE k \in Channels :
            ~act[k] /\ \A j \in Channels : j < k => act[j]
    ELSE NumChannels

\* a loop without the break: every inactive channel is assigned
ScanNoBreak(act) == {k \in Channels : ~act[k]}

\* the loop of step 3: the channels the loop body assigns
Scan(act) == {k \in Channels : k = FirstInactive(act)}

\* slope = rate / sampleRate
SlopeOf(rate) == Div(rate, FromInt(SampleRate))

\* a latch that follows the rate input on every sample
LatchSlopeAlways(oldSlope, wrap, rate) == SlopeOf(rate)

\* step 1 and the seeding before it: the slope the sample runs with
LatchSlope(oldSlope, wrap, rate) ==
    IF wrap THEN SlopeOf(rate)
    ELSE IF oldSlope = Zero THEN SlopeOf(rate)
    ELSE oldSlope

\* step 1: the phase fed to the detector
WrapPhase(oldPhase, wrap) == IF wrap THEN Sub(oldPhase, One) ELSE oldPhase

AllFalse == [ch \in Channels |-> FALSE]
AllZero == [ch \in Channels |-> Zero]

\* EventSystem::reset
EventReset ==
    [phase |-> Zero, slope |-> Zero, wrapNext |-> FALSE,
     m_lastPhase |-> Zero, m_lastWrap |-> FALSE,
     channelPhases |-> AllZero, channelSlopes |-> AllZero,
     channelOffsets |-> AllZero, isActive |-> AllFalse,
     justTriggered |-> AllFalse]

\* an increment that does not look at justTriggered
AdvancePhaseAlways(ph, sl, act, jt) ==
    IF act THEN Add(ph, sl) ELSE ph

\* step 4 for one channel: the envelope phase after the increment
AdvancePhase(ph, sl, act, jt) ==
    IF act /\ ~jt THEN Add(ph, sl) ELSE ph

\* step 4 for one channel: whether the channel stays active
StaysActive(ph, act) == act /\ Lt(ph, One)

\* step 3: the channels the sample assigns
Allocated(act, trigger, slope2) ==
    IF trigger /\ slope2 # Zero THEN Scan(act) ELSE {}

\* step 3: the channel vectors after the trigger is handled
HandleTrigger(es, slope2, phase2, overlap, alloc) ==
    [justTriggered |-> [c \in Channels |-> c \in alloc],
     channelSlopes |->
        [c \in Channels |->
            IF c \in alloc THEN Div(slope2, overlap) ELSE es.channelSlopes[c]],
     channelOffsets |->
        [c \in Channels |->
            IF c \in alloc THEN Div(phase2, slope2) ELSE es.channelOffsets[c]],
     channelPhases |->
        [c \in Channels |->
            IF c \in alloc
            THEN Mul(Div(slope2, overlap), Div(phase2, slope2))
            ELSE es.channelPhases[c]],
     isActive |-> [c \in Channels |-> c \in alloc \/ es.isActive[c]]]

\* step 4: the envelope phases after the increment
AdvanceChannels(v) ==
    [c \in Channels |->
        AdvancePhase(v.channelPhases[c], v.channelSlopes[c], v.isActive[c],
                     v.justTriggered[c])]

\* steps 4 to 6 and the return: v holds the vectors after step 3, ph4 the
\* envelope phases after the increment
ProcessChannels(es, slope2, phase2, currentWrap, trigger, alloc, v, ph4) ==
    [es |-> [phase |-> Add(phase2, slope2), slope |-> slope2,
             wrapNext |-> Ge(Add(phase2, slope2), One),
             m_lastPhase |-> phase2, m_lastWrap |-> currentWrap,
             channelPhases |-> ph4, channelSlopes |-> v.channelSlopes,
             channelOffsets |-> v.channelOffsets,
             isActive |->
                [c \in Channels |-> StaysActive(ph4[c], v.isActive[c])],
             justTriggered |-> v.justTriggered],
     output |->
        [c \in Channels |->
            IF StaysActive(ph4[c], v.isActive[c]) THEN ph4[c] ELSE Zero],
     wrapped |-> es.wrapNext, trigger |-> trigger,
     scanned |-> trigger /\ slope2 # Zero, alloc |-> alloc]

\* steps 3 to 6 with the vectors after step 3
ProcessAssigned(es, slope2, phase2, currentWrap, trigger, alloc, v) ==
    ProcessChannels(es, slope2, phase2, currentWrap, trigger, alloc, v,
                    AdvanceChannels(v))

\* steps 3 to 6 with the channels the sample assigns
ProcessScanned(es, overlap, slope2, phase2, currentWrap, trigger, alloc) ==
    ProcessAssigned(es, slope2, phase2, currentWrap, trigger, alloc,
                    HandleTrigger(es, slope2, phase2, overlap, alloc))

\* steps 3 to 6 with the pulse of the detector
ProcessTrigger(es, overlap, slope2, phase2, currentWrap, trigger) ==
    ProcessScanned(es, overlap, slope2, phase2, currentWrap, trigger,
                   Allocated(es.isActive, trigger, slope2))

\* steps 2 to 6 with the slope and the phase step 1 leaves
DetectTrigger(es, overlap, slope2, phase2, currentWrap) ==
    ProcessTrigger(es, overlap, slope2, phase2, currentWrap,
                   EdgeTrigger(currentWrap, es.m_lastWrap))

\* steps 2 to 6 with the slope and the phase step 1 leaves
ProcessWrapped(es, overlap, slope2, phase2) ==
    DetectTrigger(es, overlap, slope2, phase2,
                  CurrentWrap(phase2, es.m_lastPhase))

\* a call that does not look at resetTrigger
EventProcessNoReset(es, rate, resetTrigger, overlap) ==
    ProcessWrapped(es, overlap,
                   LatchSlope(es.slope, es.wrapNext, rate),
                   WrapPhase(es.phase, es.wrapNext))

\* EventSystem::process on the event system es; the record returned holds
\* the new event system, the output vector and the locals of the call
EventProcess(es, rate, resetTrigger, overlap) ==
    IF resetTrigger
    THEN [es |-> EventReset, output |-> AllZero, wrapped |-> FALSE,
          trigger |-> FALSE, scanned |-> FALSE, alloc |-> {}]
    ELSE ProcessWrapped(es, overlap,
                        LatchSlope(es.slope, es.wrapNext, rate),
                        WrapPhase(es.phase, es.wrapNext))

\* ------------------------------------------------------------ audio values

\* An audio sample (float) is a whole number of steps of 1/AudioGrid; the
\* result of every filter, window and interpolation is rounded to a step.

\* n/d for d > 0, rounded to the nearest integer
RoundDiv(n, d) == (2 * n + d) \div (2 * d)

\* the audio value v times the rational q
Scale(v, q) == RoundDiv(v * q[1], q[2])

\* the rational x rounded to a step of 1/AudioGrid
Quantize(x) == Rat(RoundDiv(x[1] * AudioGrid, x[2]), AudioGrid)

\* Utils::TWO_PI
TwoPi == <<44, 7>>

RECURSIVE ISqrtFrom(_, _)
ISqrtFrom(n, k) == IF (k + 1) * (k + 1) > n THEN k ELSE ISqrtFrom(n, k + 1)

\* std::sqrt of x >= 1, to a step of 1/AudioGrid
Sqrt(x) ==
    Rat(ISqrtFrom(Floor(Mul(x, FromInt(AudioGrid * AudioGrid))), AudioGrid),
        AudioGrid)

\* std::exp(-x) for x >= 0, by the reciprocal of the series of exp(x) to
\* the fourth power of x
ExpNeg(x) ==
    LET h4 == Add(One, Div(x, FromInt(4)))
        h3 == Add(One, Mul(Div(x, FromInt(3)), h4))
        h2 == Add(One, Mul(Div(x, FromInt(2)), h3))
        h1 == Add(One, Mul(x, h2))
    IN  Quantize(Div(One, h1))

\* Utils::hanningWindow: (1 - cos(2 pi phase)) / 2 = sin^2(pi t), t the
\* fractional part of phase, with sin(pi t) ~ 16 t (1-t) / (5 - 4 t (1-t))
SinPi(pn, dn) == RoundDiv(AudioGrid * 16 * pn, 5 * dn - 4 * pn)
SquareOf(sn) == RoundDiv(sn * sn, AudioGrid)
WindowAt(fr) == SquareOf(SinPi(fr[1] * (fr[2] - fr[1]), fr[2] * fr[2]))
hanningWindow(ph) == WindowAt(Sub(ph, FromInt(Floor(ph))))

\* Utils::lerp
lerp(a, b, t) == a + Scale(b - a, t)

\* sc_wrap on integers: into lo .. hi, both ends included
WrapInt(n, lo, hi) == ((n - lo) % (hi - lo + 1)) + lo

\* sc_wrap on floats: into [lo, hi)
WrapFloat(x, lo, hi) ==
    LET range == Sub(hi, lo)
    IN  Sub(x, Mul(range, FromInt(Floor(Div(Sub(x, lo), range)))))

\* cubicinterp(x, y0, y1, y2, y3): 4-point, 3rd-order Hermite, with the
\* coefficients doubled and the polynomial over the denominator of x cubed
cubicinterp(x, y0, y1, y2, y3) ==
    LET c0 == 2 * y1
        c1 == y2 - y0
        c2 == 2 * y0 - 5 * y1 + 4 * y2 - y3
        c3 == (y3 - y0) + 3 * (y1 - y2)
        xn == x[1]
        xd == x[2]
    IN  RoundDiv(c3 * xn * xn * xn + c2 * xn * xn * xd
                   + c1 * xn * xd * xd + c0 * xd * xd * xd,
                 2 * xd * xd * xd)

\* Utils::peekCubicInterp
peekCubicInterp(buffer, bufSize, ph) ==
    LET intPart == Trunc(ph)
        fracPart == Sub(ph, FromInt(intPart))
        idx0 == WrapInt(intPart - 1, 0, bufSize - 1)
        idx1 == WrapInt(intPart, 0, bufSize - 1)
        idx2 == WrapInt(intPart + 1, 0, bufSize - 1)
        idx3 == WrapInt(intPart + 2, 0, bufSize - 1)
    IN  cubicinterp(fracPart, buffer[idx0], buffer[idx1], buffer[idx2],
                    buffer[idx3])

\* OnePoleNormalized::processLowpass: the new m_state
NormalizedLowpass(state, input, coeff) ==
    LET cf == Clip(coeff, Zero, One)
    IN  RoundDiv(input * (cf[2] - cf[1]) + state * cf[1], cf[2])

\* OnePoleFilter::processLowpass: the coefficient b = exp(-2 pi slope)
OnePoleCoeff(cutoffHz) ==
    LET sl == Div(cutoffHz, FromInt(SampleRate))
        safeSlope == RAbs(Clip(sl, <<-1, 2>>, Half))
    IN  ExpNeg(Mul(TwoPi, safeSlope))

\* the coefficient of the DC blocker, processHighpass(input, 3.0f, m_sampleRate)
DcBlockCoeff == OnePoleCoeff(FromInt(3))

\* OnePoleFilter::processLowpass: the new m_state
OnePoleLowpass(state, input, coeff) ==
    RoundDiv(input * (coeff[2] - coeff[1]) + state * coeff[1], coeff[2])

\* ------------------------------------------------------------ GrainDelay

\* m_sampleDur, and m_bufFrames and m_bufSize as the constructor sets them
\* in a build with the given MAX_DELAY_TIME
SampleDur == Div(One, FromInt(SampleRate))
BufFrames(maxDelayTime) == Mul(maxDelayTime, FromInt(SampleRate))
BufSize(maxDelayTime) == Trunc(BufFrames(maxDelayTime))

\* the read position latched for a voice that was just triggered
ReadPosOf(writePos, delayTime, bufFrames) ==
    LET normalizedWritePos == Div(FromInt(writePos), bufFrames)
        normalizedDelay ==
            RMax(SampleDur, Div(Mul(delayTime, FromInt(SampleRate)), bufFrames))
    IN  WrapFloat(Sub(normalizedWritePos, normalizedDelay), Zero, One)

\* a trigger branch that runs for every voice on every sample
TriggerGrainAlways(gd, jt, writePos, delayTime, grainRate, offset, bufFrames) ==
    [readPos |-> ReadPosOf(writePos, delayTime, bufFrames), rate |-> grainRate,
     hasTriggered |-> TRUE, phase |-> Mul(grainRate, offset)]

\* m_grainData[g] after the trigger branch
TriggerGrain(gd, jt, writePos, delayTime, grainRate, offset, bufFrames) ==
    IF jt
    THEN [readPos |-> ReadPosOf(writePos, delayTime, bufFrames),
          rate |-> grainRate, hasTriggered |-> TRUE,
          phase |-> Mul(grainRate, offset)]
    ELSE gd

\* m_grainData[g] after the branch of an active voice
AdvanceGrain(gd, act) ==
    IF act THEN [gd EXCEPT !.phase = Add(gd.phase, gd.rate)] ELSE gd

\* the windowed sample an active voice adds to the delayed signal
GrainSample(gd, act, buffer, bufSize, bufFrames, envPhase) ==
    IF act
    THEN LET grainPhase == Add(Mul(gd.readPos, bufFrames), gd.phase)
         IN  RoundDiv(peekCubicInterp(buffer, bufSize, grainPhase)
                        * hanningWindow(envPhase), AudioGrid)
    ELSE 0

RECURSIVE SumOver(_, _)
SumOver(vec, n) ==
    IF n = 0 THEN 0 ELSE SumOver(vec, n - 1) + vec[n - 1]

\* a write that does not look at the freeze gate
WriteBufferAlways(buffer, writePos, freeze, value) ==
    [buffer EXCEPT ![writePos] = value]

\* the buffer after step 5 of the pipeline
WriteBuffer(buffer, writePos, freeze, value) ==
    IF freeze THEN buffer ELSE [buffer EXCEPT ![writePos] = value]

\* a write head that wraps as sc_wrap wraps a float, one frame early
AdvanceWritePosShort(writePos, freeze, bufSize) ==
    IF freeze THEN writePos ELSE (writePos + 1) % (bufSize - 1)

\* the write head after step 5 of the pipeline
AdvanceWritePos(writePos, freeze, bufSize) ==
    IF freeze THEN writePos ELSE WrapInt(writePos + 1, 0, bufSize - 1)

\* the default GrainData of the header
GrainDataDefault ==
    [readPos |-> Zero, rate |-> One, hasTriggered |-> FALSE, phase |-> Zero]

\* the engine as the member initialisers leave it, in a build with the
\* given MAX_DELAY_TIME
ConstructedWith(maxDelayTime) ==
    [MAX_DELAY_TIME |-> maxDelayTime,
     m_bufFrames |-> BufFrames(maxDelayTime),
     m_bufSize |-> BufSize(maxDelayTime),
     es |-> EventReset,
     m_grainData |-> [v \in Channels |-> GrainDataDefault],
     m_buffer |-> [i \in 0 .. (BufSize(maxDelayTime) - 1) |-> 0],
     m_writePos |-> 0,
     m_dampingFilter |-> 0,
     m_dcBlocker |-> 0]

Constructed == ConstructedWith(MaxDelayTime)

\* the parameters of one sample as the loop uses them
Controls(in, maxDelayTime) ==
    [mix |-> Clip(in.mix, Zero, One),
     feedback |-> Clip(in.feedback, Zero, <<99, 100>>),
     damping |-> Clip(in.damping, Zero, One),
     freeze |-> Gt(in.freeze, Half),
     reset |-> Gt(in.reset, Half),
     triggerRate |-> in.triggerRate,
     overlap |-> Clip(in.overlap, <<1, 1000>>, FromInt(NumChannels)),
     delayTime |-> Clip(in.delayTime, SampleDur, maxDelayTime),
     grainRate |-> Clip(in.grainRate, <<1, 8>>, FromInt(4))]

\* step 2: m_grainData after the loop over the voices
ProcessGrains(e, ctl, ev) ==
    [g \in Channels |->
        AdvanceGrain(TriggerGrain(e.m_grainData[g], ev.es.justTriggered[g],
                                  e.m_writePos, ctl.delayTime, ctl.grainRate,
                                  ev.es.channelOffsets[g], e.m_bufFrames),
                     ev.es.isActive[g])]

\* steps 2 and 3: the sum of the grain samples with the compensation gain
Delayed(e, ctl, ev, gd) ==
    Scale(SumOver([g \in Channels |->
                      GrainSample(gd[g], ev.es.isActive[g], e.m_buffer,
                                  e.m_bufSize, e.m_bufFrames, ev.output[g])],
                  NumChannels),
          Div(One, Sqrt(RMax(One, ctl.overlap))))

\* steps 5 and 6 and the state the sample leaves: damp and dc are the new
\* states of the damping filter and of the DC blocker
WriteAndMix(e, input, ctl, ev, gd, delayed, damp, dc) ==
    [e |-> [MAX_DELAY_TIME |-> e.MAX_DELAY_TIME,
            m_bufFrames |-> e.m_bufFrames,
            m_bufSize |-> e.m_bufSize,
            es |-> ev.es,
            m_grainData |-> gd,
            m_buffer |->
                WriteBuffer(e.m_buffer, e.m_writePos, ctl.freeze,
                            (input - dc) + Scale(damp, ctl.feedback)),
            m_writePos |->
                AdvanceWritePos(e.m_writePos, ctl.freeze, e.m_bufSize),
            m_dampingFilter |-> damp,
            m_dcBlocker |-> dc],
     output |-> ev.output,
     out |-> lerp(input, delayed, ctl.mix),
     smp |-> [reset |-> ctl.reset, freeze |-> ctl.freeze,
              wrapped |-> ev.wrapped, trigger |-> ev.trigger,
              scanned |-> ev.scanned, alloc |-> ev.alloc]]

\* steps 4 to 6 with the delayed signal
ApplyFeedback(e, input, ctl, ev, gd, delayed) ==
    WriteAndMix(e, input, ctl, ev, gd, delayed,
                NormalizedLowpass(e.m_dampingFilter, delayed, ctl.damping),
                OnePoleLowpass(e.m_dcBlocker, input, DcBlockCoeff))

\* steps 3 to 6 with the grain data
MixGrains(e, input, ctl, ev, gd) ==
    ApplyFeedback(e, input, ctl, ev, gd, Delayed(e, ctl, ev, gd))

\* steps 2 to 6 with what the event system returned
RenderSample(e, input, ctl, ev) ==
    MixGrains(e, input, ctl, ev, ProcessGrains(e, ctl, ev))

\* steps 1 to 6 with the parameters of the sample
ProcessSample(e, input, ctl) ==
    RenderSample(e, input, ctl,
                 EventProcess(e.es, ctl.triggerRate, ctl.reset, ctl.overlap))

\* one iteration of the sample loop of GrainDelay::next_aa on the engine e
\* with the inputs in; the record returned holds the new engine, the
\* output sample and the locals of the iteration
NextAA(e, in) == ProcessSample(e, in.input, Controls(in, e.MAX_DELAY_TIME))

\* ------------------------------------------------------------ state

\* The GrainDelay instance after the last sample, with what that sample
\* returned: st.e holds the members of the instance (es: m_eventSystem),
\* st.output the vector EventSystem::process returned, st.out the output
\* sample, st.smp the reset and freeze inputs and the locals of the call.
VARIABLES st

vars == <<st>>

\* the members of m_eventSystem and of m_eventSystem.trigDetect
phase == st.e.es.phase
slope == st.e.es.slope
wrapNext == st.e.es.wrapNext
m_lastPhase == st.e.es.m_lastPhase
m_lastWrap == st.e.es.m_lastWrap
channelPhases == st.e.es.channelPhases
channelSlopes == st.e.es.channelSlopes
channelOffsets == st.e.es.channelOffsets
isActive == st.e.es.isActive
justTriggered == st.e.es.justTriggered

\* the members of the GrainDelay instance
m_bufFrames == st.e.m_bufFrames
m_bufSize == st.e.m_bufSize
Frames == 0 .. (m_bufSize - 1)
m_grainData == st.e.m_grainData
m_buffer == st.e.m_buffer
m_writePos == st.e.m_writePos
m_dampingFilter == st.e.m_dampingFilter
m_dcBlocker == st.e.m_dcBlocker

\* what the last sample returned, and its inputs and locals
output == st.output
out == st.out
smp == st.smp

\* every phase and sample value is within the model's range
InRange ==
    LET lim == FromInt(MaxMag)
    IN  /\ Le(RAbs(phase), lim)
        /\ \A c \in Channels : Le(RAbs(channelPhases[c]), lim)
        /\ \A c \in Channels :
              isActive[c] => Le(m_grainData[c].phase, FromInt(MaxMag * m_bufSize))
        /\ \A i \in Frames : Abs(m_buffer[i]) <= MaxMag * AudioGrid

\* the inputs of one sample: the audio input, the four audio-rate
\* parameters and the five control-rate parameters
InputsOf(inputs, rates, overlaps, delays, grainRates, feedbacks, freezes, resets) ==
    [input : inputs, triggerRate : rates, overlap : overlaps,
     delayTime : delays, grainRate : grainRates, mix : {One},
     feedback : feedbacks, damping : {Zero}, freeze : freezes, reset : resets]

\* GrainDelay::GrainDelay: the member initialisers, then next_aa(1)
Start(in) == st = NextAA(Constructed, in)

\* GrainDelay::next_aa, one sample of a block
Sample(in) ==
    /\ st' = NextAA(st.e, in)
    /\ InRange'

\* ------------------------------------------------------------ specifications

\* trigger rates in Hz: slopes of -2/5, 0 and 2/5 of the ramp a sample
Rates == {FromInt(-2), Zero, FromInt(2)}

\* the event system under every trigger rate, overlap and reset, with
\* silence at the input and the buffer frozen
Inputs ==
    InputsOf({0}, Rates, {One, FromInt(2)}, {SampleDur}, {One}, {Zero},
             {One}, {Zero, One})

Init == \E in \in Inputs : Start(in)
Next == \E in \in Inputs : Sample(in)
Spec == Init /\ [][Next]_vars

\* the event system under every trigger rate and overlap, without reset
InputsNoReset ==
    InputsOf({0}, Rates, {One, FromInt(2)}, {SampleDur}, {One}, {Zero},
             {One}, {Zero})

InitNoReset == \E in \in InputsNoReset : Start(in)
NextNoReset == \E in \in InputsNoReset : Sample(in)
SpecNoReset == InitNoReset /\ [][NextNoReset]_vars

\* the pipeline with a signal at the input and the buffer recording, with
\* and without reset, at a trigger rate of 2 Hz
InputsReset ==
    InputsOf({0, AudioGrid}, {FromInt(2)}, {One}, {SampleDur}, {One}, {Zero},
             {Zero}, {Zero, One})

InitReset == \E in \in InputsReset : Start(in)
NextReset == \E in \in InputsReset : Sample(in)
SpecReset == InitReset /\ [][NextReset]_vars

\* the pipeline with a signal at the input and the freeze gate on or off,
\* at a trigger rate of 2 Hz
InputsFreeze ==
    InputsOf({0, AudioGrid}, {FromInt(2)}, {One}, {SampleDur}, {One}, {Zero},
             {Zero, One}, {Zero})

InitFreeze == \E in \in InputsFreeze : Start(in)
NextFreeze == \E in \in InputsFreeze : Sample(in)
SpecFreeze == InitFreeze /\ [][NextFreeze]_vars

\* a trigger rate held at half the sample rate and an overlap held at 1,
\* with a signal at the input and the freeze gate on or off
InputsSteady ==
    InputsOf({0, AudioGrid}, {<<5, 2>>}, {One}, {SampleDur}, {One}, {Zero},
             {Zero, One}, {Zero})

InitSteady == \E in \in InputsSteady : Start(in)
NextSteady == \E in \in InputsSteady : Sample(in)
SpecSteady == InitSteady /\ [][NextSteady]_vars

\* a trigger rate held at 2 Hz and an overlap held at the number of voices,
\* with silence at the input and the freeze gate on or off
InputsFull ==
    InputsOf({0}, {FromInt(2)}, {FromInt(NumChannels)},
             {SampleDur}, {One}, {Zero}, {Zero, One}, {Zero})

InitFull == \E in \in InputsFull : Start(in)
NextFull == \E in \in InputsFull : Sample(in)
SpecFull == InitFull /\ [][NextFull]_vars

\* a build with a MAX_DELAY_TIME above one second: 6/5 s, a buffer of 6
\* frames
LongDelayTime == <<6, 5>>

\* GrainDelay::GrainDelay in a build with the given MAX_DELAY_TIME
StartBuild(maxDelayTime, in) == st = NextAA(ConstructedWith(maxDelayTime), in)

\* the build with the long buffer recording a signal at a trigger rate of
\* 2 Hz, with overlaps of 1 and 2, delay times of one and of three samples
\* and grain rates of 1 and 2 changing from sample to sample
InputsGrain ==
    InputsOf({AudioGrid}, {FromInt(2)}, {One, FromInt(2)},
             {SampleDur, <<3, 5>>}, {One, FromInt(2)}, {Zero}, {Zero}, {Zero})

InitGrain == \E in \in InputsGrain : StartBuild(LongDelayTime, in)
NextGrain == \E in \in InputsGrain : Sample(in)
SpecGrain == InitGrain /\ [][NextGrain]_vars

\* three settings of the grain parameters, any one of them on any sample,
\* with the write head running over a silent buffer: a trigger rate of 2 Hz
\* with overlap 1, a delay of one sample and a grain rate of 2; a trigger
\* rate of 1 Hz with overlap 1, a delay of three samples and a grain rate of
\* 1; a trigger rate of 2 Hz with overlap 2, a delay of three samples and a
\* grain rate of 1
InputsLatch ==
    InputsOf({0}, {FromInt(2)}, {One}, {SampleDur}, {FromInt(2)},
             {Zero}, {Zero}, {Zero})
      \cup InputsOf({0}, {One}, {One}, {<<3, 5>>}, {One},
                    {Zero}, {Zero}, {Zero})
      \cup InputsOf({0}, {FromInt(2)}, {FromInt(2)}, {<<3, 5>>}, {One},
                    {Zero}, {Zero}, {Zero})

InitLatch == \E in \in InputsLatch : Start(in)
NextLatch == \E in \in InputsLatch : Sample(in)
SpecLatch == InitLatch /\ [][NextLatch]_vars

\* two instances of the plugin, st and st.twin: each is constructed and
\* runs up to MaxHistory samples with inputs of its own, then both process
\* one sample with reset and one more sample with the same inputs;
\* st.sync counts the samples the instances have had in common
Twins(a, b, sync, age) ==
    [e |-> a.e, output |-> a.output, out |-> a.out, smp |-> a.smp,
     twin |-> b, sync |-> sync, age |-> age]

StartTwins(in1, in2) ==
    st = Twins(NextAA(Constructed, in1), NextAA(Constructed, in2), 0, 1)

Diverge(in1, in2) ==
    /\ st.sync = 0
    /\ st.age < MaxHistory
    /\ st' = Twins(NextAA(st.e, in1), NextAA(st.twin.e, in2), 0, st.age + 1)
    /\ InRange'

ResetBoth(in) ==
    /\ st.sync = 0
    /\ Gt(in.reset, Half)
    /\ st' = Twins(NextAA(st.e, in), NextAA(st.twin.e, in), 1, st.age)

Follow(in) ==
    /\ st.sync = 1
    /\ st' = Twins(NextAA(st.e, in), NextAA(st.twin.e, in), 2, st.age)

InitTwins == \E in1, in2 \in InputsReset : StartTwins(in1, in2)
NextTwins ==
    \/ \E in1, in2 \in InputsReset : Diverge(in1, in2)
    \/ \E in \in InputsReset : ResetBoth(in)
    \/ \E in \in InputsReset : Follow(in)
SpecTwins == InitTwins /\ [][NextTwins]_vars

\* ------------------------------------------------------------ properties

AllActive == \A c \in Channels : isActive[c]
ActiveVoices == {c \in Channels : isActive[c]}

\* voice c goes through the step as a voice the scan did not assign: its
\* latched fields stay, its envelope advances by its own slope if it is active
Untouched(c) ==
    /\ channelSlopes'[c] = channelSlopes[c]
    /\ channelOffsets'[c] = channelOffsets[c]
    /\ ~justTriggered'[c]
    /\ channelPhases'[c] =
          IF isActive[c] THEN Add(channelPhases[c], channelSlopes[c])
          ELSE channelPhases[c]
    /\ m_grainData'[c].readPos = m_grainData[c].readPos
    /\ m_grainData'[c].rate = m_grainData[c].rate
    /\ m_grainData'[c].hasTriggered = m_grainData[c].hasTriggered

\* C1: every sample that applies a pending wrap of the master ramp carries
\* a trigger pulse of the detector.
C1_EveryWrapTriggers == smp.wrapped => smp.trigger

\* a wrap was applied on the last sample and no trigger came with it
C1_WrapMissed == smp.wrapped /\ ~smp.trigger

\* C2: at the end of a sample with reset the write head, the ramp phase,
\* slope and wrapNext, the active flag of every voice and the states of the
\* damping filter and of the DC blocker are zero.
C2_ResetZeroesAll ==
    smp.reset =>
        /\ m_writePos = 0
        /\ phase = Zero /\ slope = Zero /\ ~wrapNext
        /\ \A c \in Channels : ~isActive[c]
        /\ m_dampingFilter = 0
        /\ m_dcBlocker = 0

\* a sample with reset, after a grain has run, left the write head in the
\* middle of the buffer and a signal in the DC blocker
C2_ResetLeftState ==
    /\ smp.reset
    /\ m_writePos > 1
    /\ m_dcBlocker # 0
    /\ \E c \in Channels : m_grainData[c].hasTriggered

C3_DropStep ==
    (smp'.trigger /\ AllActive) =>
        (smp'.alloc = {} /\ \A c \in Channels : Untouched(c))
C3_OnlyWhenFull == (smp'.scanned /\ smp'.alloc = {}) => AllActive
C3_NoQueue ==
    smp'.alloc # {} => (CurrentWrap(m_lastPhase', m_lastPhase) /\ ~m_lastWrap)

\* C3: a trigger that fires while every voice is active assigns no voice
\* and leaves every voice as it would be without the trigger (no stealing);
\* a scan assigns no voice only if every voice is active at the scan; a
\* voice is assigned only on a sample whose own wrap condition rises, so a
\* dropped trigger causes no assignment on a later sample (no queuing).
C3_DropWhenAllActive == [][C3_DropStep /\ C3_OnlyWhenFull /\ C3_NoQueue]_vars

\* the last sample dropped a trigger
C3_Dropped == smp.scanned /\ smp.alloc = {}

C4_OnePerSample ==
    /\ Cardinality({c \in Channels : ~isActive[c] /\ isActive'[c]}) <= 1
    /\ Cardinality({c \in Channels : justTriggered'[c]}) <= 1
    /\ Cardinality(smp'.alloc) <= 1

\* C4: the number of active voices never exceeds NumChannels, and a sample
\* assigns at most one voice.
C4_BoundedVoices ==
    /\ [](Cardinality({c \in DOMAIN isActive : isActive[c]}) <= NumChannels)
    /\ [][C4_OnePerSample]_vars

\* the last sample assigned the last free voice
C4_PoolFilled == smp.alloc # {} /\ AllActive

C5_AssignStep ==
    (smp'.scanned /\ ~AllActive) =>
        \E m \in Channels :
            /\ ~isActive[m]
            /\ \A k \in Channels : k < m => isActive[k]
            /\ smp'.alloc = {m}
            /\ justTriggered'[m]
            /\ m_grainData'[m].hasTriggered
            /\ \A c \in Channels \ {m} : Untouched(c)
C5_NeverActive == \A c \in smp'.alloc : ~isActive[c]

\* C5: a trigger with a non-zero slope that finds an inactive voice assigns
\* the inactive voice of the lowest index and leaves every other voice as
\* it would be without the trigger; a voice that is active is never assigned.
C5_LowestInactive == [][C5_AssignStep /\ C5_NeverActive]_vars

\* the last sample assigned voice 0 while voice 1 was running a grain
C5_ReusedFirst == smp.alloc = {0} /\ isActive[1] /\ ~justTriggered[1]

C6_FrozenStep ==
    smp'.freeze =>
        /\ m_buffer' = m_buffer
        /\ m_writePos' = m_writePos
        /\ phase' = Add(WrapPhase(phase, wrapNext), slope')

\* C6: a sample with freeze on leaves the buffer and the write head as
\* they are, and the master ramp still advances by its slope.
C6_FreezeHoldsBuffer == [][C6_FrozenStep]_vars

\* a sample with freeze on assigned a voice, over a buffer that holds a
\* signal
C6_FrozenTrigger ==
    smp.freeze /\ smp.alloc # {} /\ \E i \in Frames : m_buffer[i] # 0

\* C7: once a voice has been assigned, exactly one voice is active at the
\* end of every sample (overlap 1, constant positive trigger rate).
C7_OneVoiceActive ==
    (\E c \in Channels : m_grainData[c].hasTriggered) =>
        Cardinality(ActiveVoices) = 1

\* a grain has run and no voice is active
C7_NoVoiceActive ==
    (\E c \in Channels : m_grainData[c].hasTriggered) /\ ActiveVoices = {}

C8_LatchStep ==
    /\ (wrapNext \/ slope = Zero) => slope' \in {SlopeOf(r) : r \in Rates}
    /\ (~wrapNext /\ slope # Zero) => slope' = slope

\* C8 as stated: the slope is latched from the rate only on a sample that
\* applies a pending wrap or finds the slope at 0, and stays on every other.
C8_SlopeHeldOnEveryOther == [][C8_LatchStep]_vars

\* C8: on a sample without reset the slope is latched from the rate only if
\* the sample applies a pending wrap or finds the slope at 0, and stays
\* otherwise; a sample with reset sets the slope to 0.
C8_SlopeHeldUnlessReset ==
    [][IF smp'.reset THEN slope' = Zero ELSE C8_LatchStep]_vars

\* the last sample ran in the middle of a cycle, without wrap, seed or reset
C8_MidCycle ==
    ~smp.reset /\ ~smp.wrapped /\ Gt(slope, Zero) /\ Gt(m_lastPhase, Zero)

\* C9: an active voice has its envelope phase in [0, 1) and returns it; an
\* inactive voice returns 0.
C9_EnvelopeInUnit ==
    \A c \in Channels :
        IF isActive[c]
        THEN /\ Ge(channelPhases[c], Zero)
             /\ Lt(channelPhases[c], One)
             /\ output[c] = channelPhases[c]
        ELSE output[c] = Zero

\* an active voice has a negative envelope phase
C9_NegativeEnvelope ==
    \E c \in Channels : isActive[c] /\ Lt(channelPhases[c], Zero)

\* C10: the voice a sample assigns has triggerOffset = phase / slope, and
\* 0 <= triggerOffset < 1.
C10_OffsetInUnit ==
    \A c \in smp.alloc :
        /\ channelOffsets[c] = Div(m_lastPhase, slope)
        /\ Ge(channelOffsets[c], Zero)
        /\ Lt(channelOffsets[c], One)

\* the last sample assigned a voice with a trigger offset of 1 or more
C10_OffsetReachesOne ==
    \E c \in smp.alloc : Ge(channelOffsets[c], One)

\* C11: the master ramp phase is at least 0 and below 1 + slope, wrapNext is
\* set exactly when the phase is 1 or more, and the phase the last sample
\* fed to the detector lies in [0, 1).
C11_RampInRange ==
    /\ Ge(phase, Zero)
    /\ Lt(phase, Add(One, slope))
    /\ wrapNext <=> Ge(phase, One)
    /\ Ge(m_lastPhase, Zero)
    /\ Lt(m_lastPhase, One)

\* the ramp runs below 0 on a negative slope, and the last sample fed a
\* negative phase to the detector
C11_NegativeRamp ==
    Lt(slope, Zero) /\ Lt(phase, Zero) /\ Lt(m_lastPhase, Zero)

C12_WriteStep ==
    ~smp'.freeze =>
        /\ \A i \in Frames \ {m_writePos} : m_buffer'[i] = m_buffer[i]
        /\ \E in \in InputsFreeze :
              /\ st' = NextAA(st.e, in)
              /\ m_buffer'[m_writePos] =
                    (in.input - m_dcBlocker')
                      + Scale(m_dampingFilter', Clip(in.feedback, Zero, <<99, 100>>))
        /\ m_writePos' = IF m_writePos = m_bufSize - 1 THEN 0 ELSE m_writePos + 1
C12_HeadInBuffer ==
    /\ m_writePos \in 0 .. (m_bufSize - 1)
    /\ DOMAIN m_buffer = 0 .. (BufSize(MaxDelayTime) - 1)
    /\ m_bufSize = BufSize(MaxDelayTime)

\* C12: a sample without freeze writes the buffer element at the write head
\* and no other, and moves the write head on by one frame, to 0 after the
\* last frame; the write head is always a buffer index and the buffer keeps
\* the length the constructor gave it.
C12_OneWritePerSample == []C12_HeadInBuffer /\ [][C12_WriteStep]_vars

\* the last sample wrote a signal to the last frame and the head wrapped to 0
C12_HeadWrapped ==
    ~smp.freeze /\ m_writePos = 0 /\ m_buffer[m_bufSize - 1] # 0

\* C13: two instances with different histories that process a sample with
\* reset and then one more sample, with the same inputs, return the same
\* output sample and the same voice outputs on both samples.
C13_ResetForgetsHistory ==
    st.sync >= 1 => (out = st.twin.out /\ output = st.twin.output)

\* after the reset sample and the next one, the instances still differ in
\* what their histories left in the buffer and in the grain data
C13_HistoriesDiffer ==
    /\ st.sync = 2
    /\ m_buffer # st.twin.e.m_buffer
    /\ \E c \in Channels :
          m_grainData[c].hasTriggered # st.twin.e.m_grainData[c].hasTriggered

\* the frame delayFrames frames behind the frame writePos, modulo bufFrames
FramesBehind(writePos, delayFrames, bufFrames) ==
    WrapFloat(Sub(FromInt(writePos), delayFrames), Zero, bufFrames)

C14_ReadStep ==
    \A in \in InputsGrain :
        st' = NextAA(st.e, in) =>
            \A c \in smp'.alloc :
                /\ Ge(m_grainData'[c].readPos, Zero)
                /\ Lt(m_grainData'[c].readPos, One)
                /\ Mul(m_grainData'[c].readPos, m_bufFrames) =
                      FramesBehind(m_writePos,
                                   Mul(Clip(in.delayTime, SampleDur,
                                            st.e.MAX_DELAY_TIME),
                                       FromInt(SampleRate)),
                                   m_bufFrames)

\* C14: the read position stored for a voice that was just triggered is in
\* [0, 1) and, in frames, lies the clipped delay time times the sample rate
\* behind the write head of that sample, modulo the buffer length.
C14_ReadStartBehindHead == [][C14_ReadStep]_vars

\* the last sample assigned a voice whose read start is not a whole number
\* of frames behind the write head, with delay times of 1 and 3 frames
C14_FractionalReadStart ==
    \E c \in smp.alloc : Mul(m_grainData[c].readPos, m_bufFrames)[2] # 1

C15_EnvelopeStep ==
    \A c \in Channels :
        /\ c \in smp'.alloc =>
              \E in \in Inputs :
                  /\ st' = NextAA(st.e, in)
                  /\ channelSlopes'[c] =
                        Div(slope', Clip(in.overlap, <<1, 1000>>,
                                         FromInt(NumChannels)))
                  /\ channelPhases'[c] =
                        Mul(channelSlopes'[c], channelOffsets'[c])
        /\ (isActive[c] /\ ~smp'.reset) =>
              channelPhases'[c] = Add(channelPhases[c], channelSlopes[c])
        /\ justTriggered'[c] <=> c \in smp'.alloc
        /\ (justTriggered[c] /\ ~smp'.reset) => ~justTriggered'[c]

\* C15: the voice a sample assigns gets envelopeSlope = slope / overlap and
\* envelopePhase = envelopeSlope * triggerOffset, without an increment on that
\* sample; a voice that is active when a sample without reset starts has
\* its envelopePhase increased by its envelopeSlope; justTriggered is set
\* exactly for the voice the sample assigns, and is clear again after the
\* next sample without reset.
C15_EnvelopeAdvance ==
    /\ [](\A c \in Channels : justTriggered[c] <=> c \in smp.alloc)
    /\ [][C15_EnvelopeStep]_vars

\* a voice that was assigned with a trigger offset other than 0 has had its
\* first increment on the last sample
C15_FirstIncrement ==
    \E c \in Channels :
        /\ isActive[c] /\ ~justTriggered[c]
        /\ channelOffsets[c] # Zero
        /\ channelPhases[c] =
              Add(Mul(channelSlopes[c], channelOffsets[c]), channelSlopes[c])

C16_LatchedStep ==
    \A c \in Channels :
        (isActive[c] /\ ~smp'.reset) =>
            /\ channelSlopes'[c] = channelSlopes[c]
            /\ channelOffsets'[c] = channelOffsets[c]
            /\ m_grainData'[c].readPos = m_grainData[c].readPos
            /\ m_grainData'[c].rate = m_grainData[c].rate

\* C16: a sample without reset leaves the envelopeSlope, the triggerOffset,
\* the readPos and the playback rate of every voice that is active when the
\* sample starts as they are, whatever the trigger rate, overlap, delay time
\* and grain rate of the sample.
C16_GrainParametersLatched == [][C16_LatchedStep]_vars

\* two grains that were triggered with different overlaps, delay times and
\* grain rates run side by side, each with its own parameters
C16_TwoGrainsDiffer ==
    \E c, d \in Channels :
        /\ isActive[c] /\ ~justTriggered[c]
        /\ isActive[d] /\ ~justTriggered[d]
        /\ channelSlopes[c] # channelSlopes[d]
        /\ m_grainData[c].readPos # m_grainData[d].readPos
        /\ m_grainData[c].rate # m_grainData[d].rate

\* C17: a trigger pulse, and so the assignment of a voice, occurs only on a
\* sample that applied a pending wrap of the master ramp.
C17_TriggerOnlyOnWrap ==
    /\ smp.trigger => smp.wrapped
    /\ smp.alloc # {} => smp.wrapped

\* the last sample assigned a voice on a positive slope without having
\* applied a wrap: the ramp only went from 0 to its first value
C17_TriggerWithoutWrap ==
    /\ smp.trigger /\ ~smp.wrapped /\ smp.alloc # {}
    /\ Gt(slope, Zero)
    /\ m_lastPhase = slope

\* C18: without reset, every voice that is active is inactive again after
\* finitely many samples.  A sample adds envelopeSlope to the envelopePhase
\* of an active voice and ends the grain when the phase is 1 or more, and
\* the slope stays as latched, so the voice ends after finitely many samples
\* exactly if its envelopeSlope is positive.
C18_EveryGrainEnds ==
    \A c \in Channels : isActive[c] => Gt(channelSlopes[c], Zero)

\* a voice that is active on a negative envelopeSlope is still active after
\* a sample
C18_BackwardsStaysActive ==
    [][\A c \in Channels :
          (isActive[c] /\ Lt(channelSlopes[c], Zero)) =>
              (isActive'[c] /\ channelSlopes'[c] = channelSlopes[c]
                 /\ Lt(channelPhases'[c], channelPhases[c]))]_vars

\* a voice runs on a negative envelopeSlope, below 0 and away from 1
C18_GrainRunsBackwards ==
    \E c \in Channels :
        /\ isActive[c] /\ ~justTriggered[c]
        /\ Lt(channelSlopes[c], Zero)
        /\ Lt(channelPhases[c], channelSlopes[c])

====
